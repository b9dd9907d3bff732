SPECIFICATION Spec
INVARIANTS
    CommitCarriesSignedRevert
CHECK_DEADLOCK FALSE
CONSTANTS
    ann = ann               bob = bob
    annOrder = annOrder     bobOrder = bobOrder
    annBtc = annBtc         annLtc = annLtc
    bobBtc = bobBtc         bobLtc = bobLtc
    btc = btc               ltc = ltc
    NoOrder = NoOrder
    Orders <- MCOrders      Apps   <- MCApps
    Addrs  <- MCAddrs       Assets <- MCAssets
    Source <- MCSource      Dest   <- MCDest
    Give   <- MCGive        Take   <- MCTake
    Owner  <- MCOwner       Wallets <- MCWallets
    Hubs = {h1}
    MaxPayments = 2
    MaxDuplicates = 1
    Timeouts = FALSE
    HubRestarts = FALSE
    HubWalletReports = FALSE
    RpcFailures = FALSE
    UserCancels = FALSE
    Resends = FALSE
    ClientRestarts = FALSE
    ForeignHub = FALSE
