\* Violation run: the status a client gets for a failed create.
CONSTANTS
    t1 = t1
    t2 = t2
    x = x
    y = y
    Null = Null
    Tags <- MCTags
    Contents <- MCContents
    Features = {1, 2}
    MaxBannerId = 2
    MaxTime = 1
    TicksPerSecond = 2
    MaxHistory = 1
    MaxRequests = 3
SYMMETRY MCSymmetry
SPECIFICATION APISpec
INVARIANT StatusFollowsOutcome
\* After MaxRequests requests and the remaining tasks only Tick is left;
\* an idle server is the program's resting state.
CHECK_DEADLOCK FALSE
