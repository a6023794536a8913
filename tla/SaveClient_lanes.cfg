SPECIFICATION Spec
CONSTANTS
    None = None
    Stranger = Stranger
    Scenarios <- Everyday
    MaxEdits = 2
    MaxOthers = 2
    MaxAsks = 2
    MaxFaults = 2
INVARIANTS
    HoldsAgree
    SavedMeansStored
    GateNeverUnderReports
    RestsSaved
    HeldOverAnother
PROPERTIES
    FileKeepsEdits
CHECK_DEADLOCK FALSE
