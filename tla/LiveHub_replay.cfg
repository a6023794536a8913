CONSTANTS
    a = a
    b = b
    s1 = s1
    s2 = s2
    s3 = s3
    f1 = f1
    f2 = f2
    f3 = f3
    None = None
    Tabs <- TwoTabs
    SavedTabs <- OnlyB
    Streams <- Three
    Inos <- OneFile
    BucketCap = 1
    QueueSize = 1
    Scenarios <- Replays

SPECIFICATION Spec
CHECK_DEADLOCK FALSE
SYMMETRY Alike

INVARIANTS
    WellFormed
    NoSilentGap
PROPERTIES
    FeedSpec
