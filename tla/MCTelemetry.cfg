CONSTANTS
    Device = {d1, d2}
    Site = {s1, s2}
    Zone = {z1}
    s1 = s1
    ZoneSite <- MCZoneSite
    AuthRequired = TRUE
    MaxPushes = 1
    Operation = {restart}
    Handler = {h1, h2}
    MaxCalls = 2
    None = None
SPECIFICATION Spec
SYMMETRY Symmetry
INVARIANTS
    IdentityIsTheRow
    
    TasksAreLogged
    TasksStayInSite
CHECK_DEADLOCK FALSE
