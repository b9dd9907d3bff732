SPECIFICATION FairSpec
PROPERTIES
    OfferIsRetranslated
CHECK_DEADLOCK FALSE
CONSTANTS
    ask = ask               bid = bid
    askAgain = askAgain
    coins = coins           tokens = tokens
    Records = {ask, bid, askAgain}
    Jobs = {j1, j2}
    Hash1 <- MCHash1        Hash2 <- MCHash2
    None = None
