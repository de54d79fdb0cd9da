\* Two handlers race reads of two keys against management writes and cache
\* pushes.
CONSTANTS
    r1 = r1
    r2 = r2
    t1 = t1
    t2 = t2
    Readers <- MCReaders
    Tags <- MCTags
    Features = {1}
    Contents = {x}
    Null = Null
    MaxReads = 4
    MaxWrites = 2
SYMMETRY MCSymmetry
SPECIFICATION Spec
INVARIANT TypeOK
INVARIANT NoInactiveToUser
INVARIANT ReadInv
\* Once the request and write bounds are spent, handlers stay idle.
CHECK_DEADLOCK FALSE
