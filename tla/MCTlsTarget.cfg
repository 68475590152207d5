SPECIFICATION WireFairSpec
CONSTANTS
    hyb1 = hyb1
    hyb2 = hyb2
    pure = pure
    classic = classic
    addr1 = addr1
    addr2 = addr2
    None = None
    Group <- Groups
    Pqc <- PqcGroups
    Hybrid <- HybridGroups
    Address <- Addresses
    Offers <- Supports
    NumCiphers = 7
    NumSchemes = 34
    MaxHost = 253
    HostLengths <- HostNames
    Answers <- Peers
    Cuts <- ReadSizes
CHECK_DEADLOCK FALSE
INVARIANTS
    TypeOK
    EachGroupOnce
    ReportsSupported
    HelloIsExact
PROPERTIES
    ImplementsTlsTarget
    ImplementsTargetScan
