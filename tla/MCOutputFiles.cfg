SPECIFICATION Spec
CONSTANTS
    a = a
    b = b
    r = r
    r1 = r1
    r2 = r2
    A = A
    B = B
    Old = Old
    OldR = OldR
    R = R
    P = P
    Q = Q
    h1 = h1
    h2 = h2
    Absent = Absent
    None = None
    Name <- MCName
    Document <- MCDocument
    Length <- MCLength
    Before <- MCBefore
    Scans <- MCScans
    OutputOf <- MCOutputOf
    ResultsOf <- MCResultsOf
    Current <- MCCurrent
    Report = R
    Output = r
    Inputs <- MCInputs
    Host <- MCHost
    Dumps <- MCDumps
    Candidates <- MCCandidates
INVARIANTS
    RowsMatchInputs
    SuccessMeansWhole
    RefusedKeepsOutput
    OldOrNewResults
    TakesFirstFree
PROPERTIES
    KeepsOthersFiles
CHECK_DEADLOCK FALSE
