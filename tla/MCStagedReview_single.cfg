\* One session at a time: the user never closes the modal on a running apply.
SPECIFICATION FairSpec
CONSTANTS
    Paths = {p1, p2}
    NoPath = NoPath
    Segments = {p1, p2}
    PathSegment <- OwnSegment
    ShortSegments = {p1, p2}
    ShortSegment <- OwnSegment
    Contents = {empty, text}
    Empty = empty
    Absent = Absent
    Commands = {cmd}
    Sessions = {m1}
    Flows = {f1}
    Operations = {"create-note", "update-note", "move-note"}
    InitialVaults <- OneNote
    MaxStagings = 2
    MaxEdits = 1
    MaxRestarts = 0
INVARIANTS
    OutcomesMatchVault
    ChecksStillHold
PROPERTIES
    AllOrNothing
    NoStagedChangeLost
    DecisionsRespected
    ApplyEnds
CHECK_DEADLOCK FALSE
