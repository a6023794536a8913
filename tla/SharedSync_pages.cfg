CONSTANTS
    a = a
    b = b
    d1 = d1
    d2 = d2
    peer = peer
    disk = disk
    q1 = q1
    q2 = q2
    q3 = q3
    None = None
    Pages <- MCPages
    Docs <- MCDocs
    Kinds <- MCKinds
    Ports <- MCPorts
    Placements <- Both
    Lively <- OnlyFirst
    Caps <- OneOrTwo
    Happens <- Everything
    MaxSeq <- MCMaxSeq
    MaxBehind = 1
    MaxMoves = 1

SPECIFICATION Spec
CHECK_DEADLOCK FALSE
SYMMETRY Alike

INVARIANTS
    BooksAgree
    NoRepeatOnPort
    VisibleIsCurrent
    RestsWhenServed
