CONSTANTS
    Gas = 1
    Dust = 1
    TopUp = 3
    Threshold = 3
    Asks <- MCAsks
    MaxReward = 1
    MaxJobs = 2
    Start <- MCStart
SPECIFICATION FairSpec
CHECK_DEADLOCK FALSE
INVARIANTS
    TypeOK
    
    NeverOverpaid
    
PROPERTIES
    JobsEnd
