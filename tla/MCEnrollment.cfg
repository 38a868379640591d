\* One device, two provision tokens, two requests at a time, every fault.
CONSTANTS
    Device = {d1}
    ProvToken = {t1, t2}
    Scope <- MCScope
    Secret = {s1, s2}
    Handler = {h1, h2}
    Actors = {"unit", "hand", "operator"}
    Faults = {"power", "api", "net", "expiry"}
    None = None
SPECIFICATION FairSpec
INVARIANTS
    
    SingleUseUnlessOverlapping
    UsedTokenGaveCredentials
    
PROPERTIES
    ReplacedStaysDead
    LiveDeviceReports
