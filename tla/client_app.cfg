SPECIFICATION FairSpec
INVARIANTS
    ClientAppTypeOK
    SwapFollowed
    MoneyAccounted
    PaymentCanBeReverted
    ListedIsServed
    WalletInv
    OrderInv
PROPERTIES
    OffersLeave
CHECK_DEADLOCK FALSE
CONSTANTS
    one = one  theirs = theirs  swapOne = swapOne  Nothing = Nothing
    usual = usual  tiny = tiny  big = big  small = small
    btc = btc  ltc = ltc  main = main  other = other  key = key  mine = mine
    NoWallet = NoWallet
    Own = {one}
    Offers = {theirs}
    SwapIds = {swapOne}
    HeldAs <- MCHeldAs
    ExpireAfter = 1
    EraseAfter = 2
    Steps = {"trCommited", "trCancelled"}
    MaxAnnouncements = 2
    Swaps = {usual, tiny}
    Amount <- MCAmount
    Fee = 2
    Coins = {big, small}
    Value <- MCValue
    Word = 64
    Wallets = {btc, ltc}
    Accounts = {main, other}
    Addresses = {key, mine}
    Has <- MCHas
