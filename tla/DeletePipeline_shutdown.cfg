\* Liveness run: one request, no faults; no symmetry (unsound for liveness).
CONSTANTS
    w1 = w1
    w2 = w2
    c1 = c1
    c2 = c2
    Workers <- MCWorkers
    Clients <- MCClients
    MaxBannerId = 1
    MaxRetries = 5
    MaxPublishes = 2
    MaxRequests = 1
    MaxFaults = 0
SPECIFICATION FairSpec
PROPERTY WorkersStop
CHECK_DEADLOCK FALSE
