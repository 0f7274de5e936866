\* Two views, two drafts, two loads.
SPECIFICATION Spec
CONSTANTS
    Views = {v1, v2}
    Drafts = {short, long}
    Typed = {long}
    short = short
    long = long
    PreviewOf <- CutLong
    Evidence <- SomeEvidence
    HasTransport = TRUE
    MaxTurns = 1
    MaxLoads = 2
    None = None
CHECK_DEADLOCK FALSE
INVARIANTS
    OneSummaryPerTarget
    QuietMeansPersisted
    NobodyIsForgotten
PROPERTIES
    OnlyFailedSavesUndo
