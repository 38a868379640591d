CONSTANTS
    b1 = b1
    b2 = b2
    b3 = b3
    p1 = p1
    bookworm = bookworm
    trixie = trixie
    Build = {b1, b2, b3}
    Package <- MCPackage
    Version <- MCVersion
    Repo <- MCRepo
    Handler = {h1, h2}
    MaxUploads = 2
    MaxRequests = 2
    None = None
SPECIFICATION Spec
SYMMETRY Symmetry
INVARIANTS
    UpstreamFirst
    DistributionKept
    AnswersAreTrue
    LoggedPlanIsTrue
CHECK_DEADLOCK FALSE
