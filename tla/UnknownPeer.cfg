CONSTANTS
    A = A
    B = B
    R = R
    a1 = a1
    a2 = a2
    a3 = a3
    a4 = a4
    k1 = k1
    Nil = Nil
    Node <- MCNode
    Addr = {a1, a2, a3}
    Home <- MCHome
    Psk <- MCPsk
    Config <- UnknownConfig
    Sources <- MCSources
    Destinations <- MCDestinations
    AddrBits = 2
    MaxPeers = 2
    ReplayWindowSize = 4
    CheckInterval = 2
    RekeyAfter = 5
    ReconnectInterval = 3
    SessionExpiry = 7
    HandshakeTimeout = 1
    HandshakeCooldown = 1
    KeepaliveInterval = 3
    PrevKeyGrace = 4
    Epoch = 3
    MaxTime = 4
    MaxLag = 0
    MaxReads = 2
    Faults = {}
    MaxFaults = 0
SPECIFICATION Spec
INVARIANTS
    KeyAgreement
