SPECIFICATION Spec
CONSTANTS
    Services = {s1}
    Threads = {t1}
    Pids = {p1}
    NoService = NoService
    NoPid = NoPid
    StartTries = 1
    ReapsPorts = TRUE
    HealthCheckerOff = FALSE
CHECK_DEADLOCK FALSE
PROPERTY DeployedWasStarted
