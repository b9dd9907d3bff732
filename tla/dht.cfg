SPECIFICATION FairSpec
CONSTANTS
    IdBits = 2
    MyId = 0
    Peers = {1, 2, 3}
    BucketSize = 1
    MaxBlacklisted = 1
    AnswerNodes = 2
    Target = 3
    SearchNodes = 2
    LiveNodes = 2
    Parallel = 1
    Askers = {1, 2}
    Hashes = {1, 2}
    MaxHashes = 1
    MaxPeers = 1
    MentionedNodes = 1
    Scenarios <- MCScenarios
INVARIANTS DhtTypeOK OwnPathSplit AnswersAreClosest SearchSorted TokensLast
PROPERTIES RespondersStay SearchEnds
