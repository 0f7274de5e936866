\* Two runs of batches that cross, without an extractor, as in the plugin.
SPECIFICATION Spec
CONSTANTS
    Runs = {r1, r2}
    QueueIds = {q1, q2}
    Sources = {a, b, c, d}
    Contents = {h1, h2, h3, h4}
    Targets = {t1, t2, t3, t4}
    ContentOf <- MCContentOf
    TargetsOf <- MCTargetsOf
    Asking = {b}
    Batches <- Crossing
    Shared = {}
    Concurrency = 1
    MaxAttempts = 1
    HasExtractor = FALSE
    MaxFaults = 0
    None = None
    a = a
    b = b
    c = c
    d = d
    t1 = t1
    t2 = t2
    t3 = t3
    t4 = t4
    h1 = h1
    h2 = h2
    h3 = h3
    h4 = h4
SYMMETRY Symmetry
INVARIANTS
    FingerprintsHeld
    RunIsCancelable
    QuietStoreSettled
