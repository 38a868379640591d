CONSTANTS
    Site = {s1, s2}
    Zone = {z1}
    Profile = {p1}
    Device = {d1}
    Unit = {u1}
    Handler = {h1, h2}
    MaxRequests = 3
    Component = {c1}
    Artifact = {a1, a2}
    Stack <- MCStack
    a0 = a0
    c1 = c1
    None = None
SPECIFICATION MCSpec
SYMMETRY Symmetry
INVARIANTS
    NoOrphans
    CountsFailures
    ManifestFollowsLayers
PROPERTY ConfinedWrites
CHECK_DEADLOCK FALSE
