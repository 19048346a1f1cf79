\* Two events; the clock may run while an event waits in the queue.
CONSTANTS
    s1 = s1
    p1 = p1
    p2 = p2
    MaxEvents = 2
    Limit = 2
    KeepBatches = 1
    Site <- MCSite
    Page <- MCPage
    NumBins = 1
    UpperMs <- MCUpperMs
    TicksPerMinute = 1
    TrailingMinutes = 1
    MaxTime = 1
    HealthWindow = 1
    MaxSetBack = 0
SPECIFICATION Spec
INVARIANTS
    LastAggregateIsNewestEvent
