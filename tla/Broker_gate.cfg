CONSTANTS
    home = home
    proj = proj
    sub = sub
    link = link
    lib = lib
    inProj = inProj
    inSub = inSub
    inLink = inLink
    inLib = inLib
    r1 = r1
    r2 = r2
    r3 = r3
    c1 = c1
    c2 = c2
    None = None
    Nodes <- MCNodes
    Home = home
    Above <- MCAbove
    Real <- MCReal
    Barred <- MCBarred
    Wanted <- Linked
    Readers <- ThreeReads
    Callers <- OneCaller
    ParkCap = 2
    Happens <- Leaving

SPECIFICATION Spec
CHECK_DEADLOCK FALSE
SYMMETRY Alike

INVARIANTS
    OneDialog
    AnsweredOnce
    QueueWatched
    NeverAskedAgain
    OnlyAllowed
