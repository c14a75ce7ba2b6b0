\* The schedule across turns, faults, stops and crashes, and its progress.
SPECIFICATION FairSpec
CONSTANTS
    Jobs <- MCJobs
    Shapes <- MCShapes
    Turns = {t1, t2}
    Horizon = 2
    Idle = 2
    MaxPerTick = 1
    ScanLimit = 2
    RestoreLimit = 2
    MaxEnds = 1
    MaxFaults = 1
INVARIANTS OfferedAtMostOnce InterruptsSurvive
PROPERTIES ActsBetweenTurns DueJobsAreTaken
