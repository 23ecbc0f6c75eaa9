SPECIFICATION Spec
CONSTANTS
    Passwords = {p1, p2, p3}
    Services = {s1}
    Chains = {c1}
    Backup = Backup
    MaxKeys = 2
    MaxKills = 0
    MaxRequests = 3
    MaxBundles = 1
    None = None
    Torn = Torn
    Lost = Lost
SYMMETRY Symmetry
CHECK_DEADLOCK FALSE
INVARIANT HalfCommitConverges
