CONSTANTS
    A = A
    B = B
    R = R
    a1 = a1
    a2 = a2
    a3 = a3
    a4 = a4
    k1 = k1
    Nil = Nil
    Node <- MCNode
    Addr = {a1, a2, a3, a4}
    Home <- MCHome
    Psk <- MCPsk
    Config <- HubConfig
    Sources <- MCSources
    Destinations <- MCDestinations
    AddrBits = 2
    MaxPeers = 2
    ReplayWindowSize = 4
    CheckInterval = 1
    RekeyAfter = 1
    ReconnectInterval = 1
    SessionExpiry = 2
    HandshakeTimeout = 1
    HandshakeCooldown = 1
    KeepaliveInterval = 6
    PrevKeyGrace = 4
    Epoch = 3
    MaxTime = 4
    MaxLag = 0
    MaxReads = 1
    Faults = {"roam"}
    MaxFaults = 1
SPECIFICATION Spec
INVARIANTS
    OneSessionPerPub
    TableNeverFull
    SpokesGetTheirTraffic
    SourceIsSpoke
