CONSTANTS
    A = A
    R = R
    a1 = a1
    a2 = a2
    a3 = a3
    k1 = k1
    Nil = Nil
    Node <- MCNode
    Addr = {a1, a2}
    Home <- MCHome
    Psk <- MCPsk
    Config <- SpokeConfig
    Sources <- MCSources
    Destinations <- MCDestinations
    AddrBits = 2
    MaxPeers = 2
    ReplayWindowSize = 4
    CheckInterval = 2
    RekeyAfter = 3
    ReconnectInterval = 1
    SessionExpiry = 4
    HandshakeTimeout = 1
    HandshakeCooldown = 1
    KeepaliveInterval = 4
    PrevKeyGrace = 4
    Epoch = 3
    MaxTime = 16
    MaxLag = 0
    MaxReads = 0
    Faults = {"loss", "restart", "keygen"}
    MaxFaults = 2
SPECIFICATION FairSpec
INVARIANTS
    SilentSessionsExpire
PROPERTIES
    Recovers
