\* Violation run: a healthy store, and the delete work of two requests grows
\* past what two bounded retry sequences allow.
CONSTANTS
    w1 = w1
    w2 = w2
    c1 = c1
    c2 = c2
    Workers <- MCWorkers
    Clients <- MCClients
    MaxBannerId = 1
    MaxRetries = 5
    MaxPublishes = 8
    MaxRequests = 2
    MaxFaults = 0
SYMMETRY MCSymmetry
SPECIFICATION Spec
INVARIANT AttemptsBounded
CHECK_DEADLOCK FALSE
