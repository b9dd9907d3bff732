SPECIFICATION StagedSpec
INVARIANTS
    RevertedOnlyIfRolledBack
CHECK_DEADLOCK FALSE
CONSTANTS
    ann = ann               bob = bob               carol = carol
    first = first           second = second
    bobOrder = bobOrder     carolOrder = carolOrder
    annBtc = annBtc         annLtc = annLtc
    bobBtc = bobBtc         bobLtc = bobLtc
    carolBtc = carolBtc     carolLtc = carolLtc
    btc1 = btc1             ltc1 = ltc1
    btc2 = btc2             ltc2 = ltc2
    NoOrder = NoOrder
    Orders <- MCOrders      Apps   <- MCApps
    Addrs  <- MCAddrs       Assets <- MCAssets
    Source <- MCSource      Dest   <- MCDest
    Give   <- MCGive        Take   <- MCTake
    Owner  <- MCOwner       Wallets <- MCWallets
    Hubs = {h1}
    MaxPayments = 1
    MaxDuplicates = 0
    Timeouts = TRUE
    HubRestarts = FALSE
    HubWalletReports = FALSE
    RpcFailures = FALSE
    UserCancels = FALSE
    Resends = FALSE
    ClientRestarts = FALSE
    ForeignHub = FALSE
