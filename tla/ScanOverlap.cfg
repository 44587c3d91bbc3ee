SPECIFICATION Spec
CONSTANTS
    Interfaces = {lan, vpn}
    Tunnels = {vpn}
    referNetworkInterface = All
    All = All
    Nets <- SmallNets
    Scans = {s1, s2, s3}
    Concurrency = 1
    MaxMoves = 2
SYMMETRY ScanSymmetry
INVARIANTS
    ScanProbesItsNetworks
    CacheMatchesKey
CHECK_DEADLOCK FALSE
