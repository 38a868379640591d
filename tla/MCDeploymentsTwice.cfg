\* Two requests trigger the same deployment.
CONSTANTS
    Dep = {d1}
    Job = {j1, j2}
    Handler = {h1, h2}
    Artifact = {a1}
    CreateModes = {"ring-0"}
    Roles = {"operator"}
    None = None
SPECIFICATION Spec
INVARIANT OneJobPerDeployment
