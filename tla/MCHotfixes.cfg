CONSTANTS
    Hf = {x1}
    Job = {j1, j2, j3}
    Handler = {h1, h2, h3}
    None = None
SPECIFICATION Spec
SYMMETRY Symmetry
INVARIANTS
    FixIsTracked
    ClosedIsLogged
    RevertedWasRolledBack
    SettledOnceUnlessOverlapping
PROPERTY ClosedStaysClosed
