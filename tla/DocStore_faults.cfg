CONSTANTS
    a = a
    b = b
    am = am
    nil = nil
    r1 = r1
    r2 = r2
    i1 = i1
    None = None
    Star = Star
    Empty = nil
    Content <- WithMark
    Marked <- MCMarked
    Bare <- MCBare
    IfMatches <- Stamps
    SaveIds <- NoIds
    Req <- MCReq
    OldHistories <- MCOldHistories
    Faults <- DiskFaults
    TrustedOnly = FALSE
    HandoffOn = FALSE
    MaxEdits = 2
    MaxRuns = 2
    MaxWrites = 1

SPECIFICATION Spec
CHECK_DEADLOCK FALSE

INVARIANTS
    NoLostBytes
    RestoreKeepsBytes
    AckedIsVersioned

PROPERTY
    HistoryKept
