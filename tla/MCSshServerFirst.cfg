SPECIFICATION Spec
CONSTANTS
    c1 = c1
    c2 = c2
    srv = srv
    alice = alice
    bob = bob
    x = x
    y = y
    z = z
    None = None
    Socket <- Sockets
    Host <- Hosts
    HostOf <- HostOfSocket
    Alg <- Algs
    KexLists <- Lists
    Clients <- Opened
INVARIANTS
    AlgorithmActuallyUsed
