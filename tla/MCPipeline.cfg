CONSTANTS
    s1 = s1
    p1 = p1
    p2 = p2
    MaxEvents = 3
    Limit = 2
    KeepBatches = 1
    Site <- MCSite
    Page <- MCPage
    NumBins = 1
    UpperMs <- MCUpperMs
    TicksPerMinute = 1
    TrailingMinutes = 1
    MaxTime = 2
    HealthWindow = 1
    MaxSetBack = 1
VIEW WithoutSentAt
SYMMETRY Symmetry
SPECIFICATION Spec
INVARIANTS
    CountsAreExact
    QueuePlusAggregates
    DrainedMeansCounted
    CountersTrailFolds
    StalledMeansUnhealthy
