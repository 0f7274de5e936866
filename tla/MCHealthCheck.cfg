\* The check is opened twice, within a second or two.
SPECIFICATION Spec
CONSTANTS
    summary = summary
    source = source
    url = url
    Paths = {summary, source}
    Outside = {url}
    Unlisted = {source}
    None = None
    Modals = {m1, m2}
    FirstVault <- SomeVault
    Texts <- SomeTexts
    Indexes <- SomeIndexes
    MaxSecond = 1
    MaxEvents = 1
    MaxChanges = 2
SYMMETRY Symmetry
CHECK_DEADLOCK FALSE
INVARIANTS
    OneReadyRepair
    StageableIsStaged
PROPERTIES
    NoReportOverwritten
