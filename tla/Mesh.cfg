CONSTANTS
    A = A
    R = R
    a1 = a1
    a2 = a2
    a3 = a3
    k1 = k1
    Nil = Nil
    Node <- MCNode
    Addr = {a1, a2, a3}
    Home <- MCHome
    Psk <- MCPsk
    Config <- MeshConfig
    Sources <- MCSources
    Destinations <- MCDestinations
    AddrBits = 2
    MaxPeers = 1
    ReplayWindowSize = 4
    CheckInterval = 2
    RekeyAfter = 3
    ReconnectInterval = 1
    SessionExpiry = 7
    HandshakeTimeout = 3
    HandshakeCooldown = 1
    KeepaliveInterval = 3
    PrevKeyGrace = 4
    Epoch = 3
    MaxTime = 8
    MaxLag = 0
    MaxReads = 0
    Faults = {"send", "dns", "block", "keygen", "restart", "loss", "roam", "delay", "duplicate", "reorder"}
    MaxFaults = 1
SPECIFICATION Spec
INVARIANTS
    TypeOK
    RekeyingHasPending
    NoKeyReinstall
