\* Three notes and one that may appear, two callers of one service, an edit, two changes.
CONSTANTS
    inA = inA  topicA = topicA  topicB = topicB  upper = upper  half = half  rest = rest
    a = a  b = b  u = u
    t1 = t1  t2 = t2  fixture = fixture
    alpha = alpha  beta = beta  pair = pair  year = year
    None = None
    NoFolder = "none"
    Inbox = "inbox"
    Fixture = fixture
    Paths = {inA, topicA, topicB, upper, half, rest}
    Names = {a, b, u}
    Folders = {"none", "inbox", "topics"}
    Tags = {t1, t2, fixture}
    Words = {alpha, beta, pair, year}
    Texts <- MCTexts
    LinkOf <- MCLinkOf
    Unstageable = {upper}
    Name <- MCName
    Folder <- MCFolder
    PathOf <- MCPathOf
    Rank <- MCRank
    Tokens <- MCTokens
    Normal <- MCNormal
    Split <- MCSplit
    Results <- MCResults
    FirstVault <- MCVault
    Drafts <- MCDrafts
    MaxCandidates = 4
    MaxSuggestions = 8
    Callers = {c1, c2}
    MaxEdits = 1
    MaxChanges = 2
SYMMETRY Symmetry
SPECIFICATION Spec
INVARIANTS
    AppliedSettles
    StageableStages
    OneReadyForNote
CHECK_DEADLOCK FALSE
