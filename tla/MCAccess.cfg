CONSTANTS
    Token = {t1, t2}
    Password = {p1, p2}
    Claims = {c1, c2}
    Handler = {h1, h2}
    MaxTime = 6
    Jose = TRUE
    None = None
SPECIFICATION Spec
SYMMETRY Symmetry
INVARIANTS
    NoStaleSession
    FreshSessionAccepted
    GrafanaAgrees
PROPERTY DeadStaysDead
