\* Violation run: a PATCH of a banner that does not exist.
CONSTANTS
    t1 = t1
    t2 = t2
    x = x
    y = y
    Null = Null
    Tags <- MCTags
    Contents <- MCContents
    Features = {1, 2}
    MaxBannerId = 2
    MaxTime = 1
    TicksPerSecond = 2
    MaxHistory = 2
SYMMETRY MCSymmetry
SPECIFICATION Spec
PROPERTY MissingNotFound
