SPECIFICATION FairSpec
CONSTANTS
    Services = {s1}
    Tasks = {k1, k2}
    NoTask = NoTask
    NumberOfFails = 2
    FailfastNum = 2
    FailfastTimeout = 1
    HungPortTimesOut = TRUE
INVARIANTS TypeOK OneJobPerService
PROPERTIES GraceAfterRestart SickIsRestarted RetriesEnd
