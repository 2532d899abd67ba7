SPECIFICATION FairSpec
CONSTANTS
    u1 = u1
    u2 = u2
    c1 = c1
    c2 = c2
    c3 = c3
    App = App
    Reconnect = Reconnect
    NoUrl = NoUrl
    NoConn = NoConn
    rank <- MCRank
    Url = {u1, u2}
    Conn = {c1, c2, c3}
    bootstrap_peers <- OneBootstrap
    max_peers = 2
    max_known_peers = 1
    max_peers_per_message = 2
    initial_delay = 1
    backoff_multiplier = 2
    max_delay = 2
    max_attempts = 0
    AttemptCap = 2
    StatedUrls = {u1}
    PeersMessages <- BothUrls
INVARIANTS TypeOK PeersBounded NoStaleUrl DialsExclusive
PROPERTIES KeepsTrying
