\* Pass run: two banners, two tags, two features, two contents; the
\* repository keeps its invariants and implements BannerCatalog.
CONSTANTS
    t1 = t1
    t2 = t2
    x = x
    y = y
    Null = Null
    Tags <- MCTags
    Contents <- MCContents
    Features = {1, 2}
    MaxBannerId = 2
    MaxTime = 1
    TicksPerSecond = 2
    MaxHistory = 1
SYMMETRY MCSymmetry
SPECIFICATION Spec
INVARIANT TypeOK
INVARIANT MappingsConsistent
INVARIANT StoreInv
PROPERTY CatalogRefined
\* Once the id sequence, the clock and the history bound are used up the
\* remaining requests change nothing but `req'; no state is terminal.
