SPECIFICATION Spec
CONSTANTS
    c = c
    s1 = s1
    s2 = s2
    v = v
    alice = alice
    bob = bob
    carol = carol
    kexPq = kexPq
    kexOld = kexOld
    kexNew = kexNew
    suite = suite
    mlkem = mlkem
    x25519 = x25519
    grease = grease
    None = None
    Zero = Zero
    Socket <- Sockets
    Host <- Addresses
    HostOf <- HostOfSocket
    V6 <- V6Hosts
    Alg <- Algs
    KexLists <- Lists
    Clients <- Opened
    KexAlgos <- KnownKex
    PqcKex <- KexPq
    Cipher <- Suites
    GroupId <- Ids
    ClientHellos <- CHellos
    ServerHellos <- SHellos
    Groups <- Known
    PqcGroups <- Pq
    MaxExamined = 3
INVARIANTS
    TypeOK
    SessionsMatchCapabilities
    PqcHostsRight
    PqcSessionsBacked
    StatusBacked
CHECK_DEADLOCK FALSE
