\* Pass run: two workers, two request handlers, two banners, one fault.
CONSTANTS
    w1 = w1
    w2 = w2
    c1 = c1
    c2 = c2
    Workers <- MCWorkers
    Clients <- MCClients
    MaxBannerId = 2
    MaxRetries = 5
    MaxPublishes = 7
    MaxRequests = 3
    MaxFaults = 1
SYMMETRY MCSymmetry
SPECIFICATION Spec
INVARIANT TypeOK
INVARIANT NoForeignDelete
INVARIANT IInv
\* Workers blocked on an empty queue, or stopped after Shutdown, is the
\* program's resting state: the system really may stop.
CHECK_DEADLOCK FALSE
