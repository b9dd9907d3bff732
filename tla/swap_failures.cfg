SPECIFICATION TimerSpec
INVARIANTS
    TypeOK
    PayerCanRevert
    HubClosesPaidSwaps
    NeverFinishedAndRolledBack
    RevertedOnlyIfRolledBack
    ClosedInv
    ClosesInv
PROPERTY HubForgets
CHECK_DEADLOCK FALSE
CONSTANTS
    ann = ann               bob = bob
    annOrder = annOrder     bobOrder = bobOrder
    annBtc = annBtc         annLtc = annLtc
    bobBtc = bobBtc         bobLtc = bobLtc
    btc = btc               ltc = ltc
    NoOrder = NoOrder
    Orders <- MCOrders      Apps   <- MCApps
    Addrs  <- MCAddrs       Assets <- MCAssets
    Source <- MCSource      Dest   <- MCDest
    Give   <- MCGive        Take   <- MCTake
    Owner  <- MCOwner       Wallets <- MCWallets
    Hubs = {h1}
    MaxPayments = 1
    MaxDuplicates = 0
    Timeouts = TRUE
    HubRestarts = FALSE
    HubWalletReports = FALSE
    RpcFailures = TRUE
    UserCancels = TRUE
    Resends = FALSE
    ClientRestarts = FALSE
    ForeignHub = TRUE
