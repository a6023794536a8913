CONSTANTS
    a = a
    b = b
    am = am
    nil = nil
    r1 = r1
    r2 = r2
    i1 = i1
    None = None
    Star = Star
    Empty = nil
    Content <- Plain
    Marked <- MCMarked
    Bare <- MCBare
    IfMatches <- FewStamps
    SaveIds <- MCSaveIds
    Req <- MCReq
    OldHistories <- Versioned
    Faults <- UpdateFaults
    TrustedOnly = TRUE
    HandoffOn = TRUE
    MaxEdits = 2
    MaxRuns = 2
    MaxWrites = 2

SPECIFICATION Spec
CHECK_DEADLOCK FALSE
SYMMETRY Handlers

INVARIANTS
    ConditionalExact
    ReceiptHonest
    OwnWriteNeverForeign
    BlameHonest
    StaleHonest
