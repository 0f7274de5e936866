\* One provider of the user, the local one of the registry, one key of calls.
SPECIFICATION FairSpec
CONSTANTS
    mine = mine
    fixture = fixture
    talk = talk
    embed = embed
    here = here
    away = away
    key = key
    old = old
    Users = {mine}
    Baselines = {fixture}
    BaselineOf <- MCBaselineOf
    Models = {talk, embed}
    RolesOf <- MCRolesOf
    Endpoints = {here, away}
    LocalEndpoints = {here}
    Refs = {key, old}
    OldRefs = {old}
    None = None
    Unreadable = Unreadable
    Keys = {"chat"}
    MaxAttempts = 2
    MaxRefs = 1
    MaxTests = 1
    Files <- SomeFiles
CHECK_DEADLOCK FALSE
INVARIANTS
    ReadyMeansAllowed
    TrustIsForTheCloud
PROPERTIES
    NoCallAfterAbort
    InvocationEnds
