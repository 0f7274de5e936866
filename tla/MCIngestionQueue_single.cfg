\* One run of three items, two of which compete, and two workers; a fault.
SPECIFICATION FairSpec
CONSTANTS
    Runs = {r1}
    QueueIds = {q1}
    Sources = {a, b, c, d}
    Contents = {h1, h2, h3, h4}
    Targets = {t1, t2, t3, t4}
    ContentOf <- MCContentOf
    TargetsOf <- MCTargetsOf
    Asking = {a, b}
    Batches <- Overlapping
    Shared = {t3}
    Concurrency = 2
    MaxAttempts = 2
    HasExtractor = TRUE
    MaxFaults = 1
    None = None
    a = a
    b = b
    c = c
    d = d
    t1 = t1
    t2 = t2
    t3 = t3
    t4 = t4
    h1 = h1
    h2 = h2
    h3 = h3
    h4 = h4
INVARIANTS
    ItemsDoNotCompete
PROPERTIES
    KeepsContract
    NothingStartsAfterCancel
    RunEnds
