SPECIFICATION Spec
CONSTANTS
    Services = {s1}
    Threads = {t1, t2}
    Pids = {p1, p2}
    NoService = NoService
    NoPid = NoPid
    StartTries = 1
    ReapsPorts = TRUE
    HealthCheckerOff = FALSE
SYMMETRY Symmetry
INVARIANTS TypeOK TransientIsOwned StateIsOwned  NoAgentAfterParentExit
PROPERTIES ServesStopped
