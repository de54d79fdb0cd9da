\* Violation run: a content update at a sub-second time.Now(), then its
\* listed version restored.
CONSTANTS
    t1 = t1
    t2 = t2
    x = x
    y = y
    Null = Null
    Tags <- MCTags
    Contents <- MCContents
    Features = {1, 2}
    MaxBannerId = 2
    MaxTime = 1
    TicksPerSecond = 2
    MaxHistory = 2
SYMMETRY MCSymmetry
SPECIFICATION Spec
INVARIANT VersionRestorable
