\* Violation run: a healthy store, and still an accepted delete's task is lost.
CONSTANTS
    w1 = w1
    w2 = w2
    c1 = c1
    c2 = c2
    Workers <- MCWorkers
    Clients <- MCClients
    MaxBannerId = 2
    MaxRetries = 5
    MaxPublishes = 3
    MaxRequests = 2
    MaxFaults = 0
SYMMETRY MCSymmetry
SPECIFICATION Spec
INVARIANT TaskNotLost
CHECK_DEADLOCK FALSE
