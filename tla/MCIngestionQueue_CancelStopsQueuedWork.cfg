\* Three items, two workers, a fault.
SPECIFICATION Spec
CONSTANTS
    Runs = {r1}
    QueueIds = {q1}
    Sources = {a, b, c, d}
    Contents = {h1, h2, h3, h4}
    Targets = {t1, t2, t3, t4}
    ContentOf <- MCContentOf
    TargetsOf <- MCTargetsOf
    Asking = {}
    Batches <- Disjoint
    Shared = {}
    Concurrency = 2
    MaxAttempts = 1
    HasExtractor = FALSE
    MaxFaults = 1
    None = None
    a = a
    b = b
    c = c
    d = d
    t1 = t1
    t2 = t2
    t3 = t3
    t4 = t4
    h1 = h1
    h2 = h2
    h3 = h3
    h4 = h4
PROPERTIES
    CancelStopsQueuedWork
