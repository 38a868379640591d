CONSTANTS
    Role = {"operator", "viewer"}
    SiteScope = {s1, s2}
    Handler = {h1, h2}
    MaxAccounts = 2
    MaxBreaks = 2
    None = None
SPECIFICATION Spec
SYMMETRY Symmetry
INVARIANTS
    InStep
