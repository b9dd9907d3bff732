SPECIFICATION Spec
INVARIANTS
    SearchIsSurvived
CHECK_DEADLOCK FALSE
CONSTANTS
    client = client  relay = relay  hub = hub
    offer = offer  hold = hold  apply = apply  confirmed = confirmed
    wallet = wallet  hubId = hubId
    Nodes = {client, relay, hub}
    Broadcasts = {offer}
    Directs = {hold, apply, confirmed}
    Addrs = {wallet, hubId}
    To <- MCTo
    Home <- MCHome
    WalletAddrs = {wallet}
    Sessions <- MCSessions
    Peers <- MCPeers
    IdleFamily = {client, relay, hub}
    Reply <- MCReply
    Commands <- MCCommands
    MaxRestarts = 0
