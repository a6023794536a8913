CONSTANTS
    a = a
    b = b
    s1 = s1
    s2 = s2
    s3 = s3
    f1 = f1
    f2 = f2
    f3 = f3
    None = None
    Tabs <- OneTab
    SavedTabs <- NoTabs
    Streams <- Two
    Inos <- MCFiles
    BucketCap = 2
    QueueSize = 1
    Scenarios <- EndsOrAges

SPECIFICATION Spec
CHECK_DEADLOCK FALSE
SYMMETRY Alike

INVARIANTS
    RefsBalanced
    ClosedHasNoSubs
    LatestReached
PROPERTIES
    NoForeignReplay
