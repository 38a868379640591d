\* Nothing goes wrong and nobody interferes: systemd runs firstboot.
CONSTANTS
    Device = {d1}
    ProvToken = {t1}
    Scope <- MCScope
    Secret = {s1}
    Handler = {h1}
    Actors = {"unit"}
    Faults = {}
    None = None
SPECIFICATION FairSpec
PROPERTY TokenLeavesDisk
