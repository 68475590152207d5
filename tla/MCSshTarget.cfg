SPECIFICATION FairSpec
CONSTANTS
    mlkem = mlkem
    curve = curve
    unknown = unknown
    None = None
    ReadSize = 2
    Alg <- Database
    Pqc <- PostQuantum
    Offers <- KexOffers
    Scripts <- ServerScripts
CHECK_DEADLOCK FALSE
INVARIANTS
    ClaimsNeedWholeKexInit
    PoliteServerReported
PROPERTIES
    Termination
    ImplementsTargetScan
