SPECIFICATION Spec
CONSTANTS
    Keys     <- MCKeys
    Values   <- MCValues
    Atoi     <- MCAtoi
    Hex      <- MCHex
    Endpoint <- MCEndpoint
    Cidr     <- MCCidr
    DefaultNum <- MCDefaultNum
    NoKey      = NoKey
    NoEndpoint = NoEndpoint
    NoPrefix   = NoPrefix
    MaxPeers  = 2
    MaxRoutes = 1
    MaxDepth  = 4
    MaxSet    = 2
INVARIANTS
    TypeOK
    ReadsAsWritten
    
