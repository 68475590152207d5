SPECIFICATION PipelineSpec
CONSTANTS
    c = c
    w = w
    s = s
    alice = alice
    bob = bob
    kexPq = kexPq
    kexOld = kexOld
    suite = suite
    mlkem = mlkem
    x25519 = x25519
    data = data
    None = None
    Zero = Zero
    Socket <- Sockets
    Host <- Addresses
    HostOf <- HostOfSocket
    V6 = {}
    Alg <- Algs
    KexLists <- PqLists
    Clients = {}
    KexAlgos <- Algs
    PqcKex <- KexPq
    Cipher <- Suites
    GroupId <- Ids
    ClientHellos <- CHellos
    ServerHellos <- SHellos
    Groups <- Ids
    PqcGroups <- Pq
    Message <- Messages
    Data = data
    Says <- Speech
    TcpFlow <- Directions
    SeqMod = 5
    MaxLen = 2
    MinPayload = 1
    MaxPackets = 3
INVARIANTS
    SessionsShown
CHECK_DEADLOCK FALSE
