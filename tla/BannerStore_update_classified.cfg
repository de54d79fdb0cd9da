\* Violation run: a PATCH that moves a banner onto a taken (tag, feature).
CONSTANTS
    t1 = t1
    t2 = t2
    x = x
    y = y
    Null = Null
    Tags <- MCTags
    Contents <- MCContents
    Features = {1, 2}
    MaxBannerId = 2
    MaxTime = 1
    TicksPerSecond = 2
    MaxHistory = 2
SYMMETRY MCSymmetry
SPECIFICATION Spec
PROPERTY UpdateFailuresClassified
