\* Two probers, two dependencies.
CONSTANTS
    Probers = {p1, p2}
    _dependencies = {customers, claims}
    Ttls <- MCTtls
    _PROBE_TIMEOUT_SECONDS = 2
    None = None
    MaxTime = 6
SPECIFICATION FairSpec
INVARIANTS
    ToldInTime
    OncePerTtl
    AnsweredInTime
PROPERTIES
    NobodyIsStuck
CHECK_DEADLOCK FALSE
