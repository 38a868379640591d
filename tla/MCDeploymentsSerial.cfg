\* One request at a time; its answer may still be lost, and Semaphore moves on.
CONSTANTS
    Dep = {d1, d2}
    Job = {j1, j2}
    Handler = {h1}
    Artifact = {a1}
    CreateModes = {"ring-0", "ring-1"}
    Roles = {"operator", "ci_bot"}
    None = None
SPECIFICATION FairSpec
INVARIANT VerdictMatchesTrackedJob
PROPERTIES
    ImplementsLifecycle
    
