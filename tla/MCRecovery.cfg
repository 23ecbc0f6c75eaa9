SPECIFICATION Spec
CONSTANTS
    Passwords = {p1, p2}
    Services = {s1}
    Chains = {c1}
    Backup = Backup
    MaxKeys = 3
    MaxKills = 1
    MaxRequests = 3
    MaxBundles = 2
    None = None
    Torn = Torn
    Lost = Lost
SYMMETRY Symmetry
CHECK_DEADLOCK FALSE
INVARIANTS  RetryConverges
PROPERTIES AnswerHolds Recovered
