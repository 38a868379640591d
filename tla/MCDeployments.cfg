CONSTANTS
    Dep = {d1, d2, d3}
    Job = {j1, j2}
    Handler = {h1, h2}
    Artifact = {a1, a2}
    CreateModes = {"ring-0"}
    Roles = {"operator", "ci_bot"}
    None = None
SPECIFICATION Spec
SYMMETRY Symmetry
INVARIANTS
    VerdictIsEarned
    TrackedJobIsAudited
    PromotedFromSuccess
PROPERTY NeverUntriggered
