CONSTANTS
    Login = {l1, l2}
    Threshold = 2
    Window = 2
    Lock = 2
    MaxTime = 4
    MaxMessages = 2
    Service = {"prometheus"}
    MaxRevision = 2
    Site = {s1, s2}
    Zone = {z1, z2}
    Device = {d1, d2, d3}
    s1 = s1
    s2 = s2
    z1 = z1
    z2 = z2
    d1 = d1
    d2 = d2
    d3 = d3
    ZoneSite <- MCZoneSite
    Home <- MCHome
    Matching <- MCMatching
    Rendering = {r1, r2}
    MaxEvents = 2
    Absent = Absent
SPECIFICATION MCSpec
SYMMETRY Symmetry
INVARIANTS
    FewGuesses
    CountsOnce
    
    ListedOnce
    ShownFollowsState
CHECK_DEADLOCK FALSE
