CONSTANTS
    Asks <- MCAsks
    Validity = 0
    Soft = 0
    Hard = 1
    TwoEta = 1
SPECIFICATION FairSpec
INVARIANTS
    SentOnce
    Remembered
PROPERTIES
    FinalIsFinal
    
