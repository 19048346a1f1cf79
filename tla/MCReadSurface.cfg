CONSTANTS
    s1 = s1
    s2 = s2
    p1 = p1
    p2 = p2
    Site <- MCSite
    Page <- MCPage
    NumBins = 2
    UpperMs <- MCUpperMs
    TicksPerMinute = 1
    TrailingMinutes = 2
    Limit = 2
    MaxTime = 3
    MaxEvents = 4
    Provisioned <- MCProvisioned
    TopPagesLimit = 1
    TrendBuckets = 2
SYMMETRY Symmetry
SPECIFICATION Spec
INVARIANTS
    TypeOK
    SiteMergesPages
    CurrentIsDerived
    TrendIsNearestRank
    SitesAreUsable
PROPERTIES
    OneMinuteGrows
    PagesOnlyGrow
    TrendSlides
CHECK_DEADLOCK FALSE
