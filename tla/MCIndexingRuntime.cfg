\* Two notes, one write, a build and a check or an orphan of an unload beside it.
SPECIFICATION TimerSpec
CONSTANTS
    Paths = {p1, p2}
    Readers = {j1, j2}
    Sessions = {s1}
    None = None
    InitialVaults <- OneNote
    MaxWrites = 1
INVARIANTS
    OneBuild
    ReportAgrees
PROPERTIES
    CanceledStaysCanceled
    RefreshIsNotOlder
    RefreshEnds
    PlaceIsFreed
