CONSTANTS
    A = A
    B = B
    C = C
    D = D
    None = None
    Bodies <- MCBodies
    Histories <- MCHistories
    Stampings <- AnyHost
    Happens <- Faulty
    MaxVer = 2
    MaxSeq = 2
    MaxBreaks = 1
    MaxFaults = 1

SPECIFICATION FairSpec
CHECK_DEADLOCK FALSE

INVARIANTS
    ReceiptSound
    QuietShowsFile

PROPERTIES
    NeverRewinds
    EndsAtFile
