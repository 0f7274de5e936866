\* Two scripts, a fault, three checkouts, three plugin folders.
SPECIFICATION Spec
CONSTANTS
    nightly = nightly
    app = app
    Numbered <- SomeVersions
    Labels = {nightly}
    Unsafe = {}
    MinApps = {app}
    Checkouts <- SomeCheckouts
    Vaults <- SomeVaults
    Folders <- SomeFolders
    Invocations <- SomeInvocations
    Deploys = {d1, d2}
    MaxStarts = 2
    MaxFaults = 1
    Absent = Absent
    Broken = Broken
SYMMETRY Symmetry
CHECK_DEADLOCK FALSE
INVARIANTS
    SuccessMeansWhole
    OnlyReviewedReplacements
    FailureUndoesCopies
