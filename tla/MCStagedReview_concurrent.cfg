\* Two sessions (the modal was closed on a running apply and opened again) and
\* two deletions of one note: within a minute they share an id.
SPECIFICATION Spec
CONSTANTS
    Paths = {p1}
    NoPath = NoPath
    Segments = {p1}
    PathSegment <- OwnSegment
    ShortSegments = {p1}
    ShortSegment <- OwnSegment
    Contents = {empty, text}
    Empty = empty
    Absent = Absent
    Commands = {cmd}
    Sessions = {m1, m2}
    Flows = {f1}
    Operations = {"delete-note"}
    InitialVaults <- OneNote
    MaxStagings = 2
    MaxEdits = 1
    MaxRestarts = 1
CONSTRAINT NothingDeclined
SYMMETRY SessionSymmetry
INVARIANTS
    WellFormedRecords
PROPERTIES
    BackupBeforeLoss
CHECK_DEADLOCK FALSE
