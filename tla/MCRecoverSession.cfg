\* Two loads, one change, one tick of the clock, and limits that these reach:
\* one omitted body fills the diagnostics.
CONSTANTS
    ItemLimit = 3
    DiagnosticLimit = 1
    StaleAfter = 0
    MaxStaged = 1
    MaxLoads = 2
    MaxNow = 1
SPECIFICATION RecoverySpec
INVARIANTS
    FailuresShow
    ReadyTellsTheWhole
CHECK_DEADLOCK FALSE
