SPECIFICATION Spec
CONSTANTS
    m1 = m1
    m2 = m2
    h1 = h1
    h2 = h2
    k1 = k1
    k2 = k2
    Messages = {m1, m2}
    Handlers = {h1, h2}
    Mail <- MCMail
    RequireMention = TRUE
    Rejects = TRUE
    MaxLookups = 2
    Capacity = 1
    Ttl = 2
    MaxPassages = 3
    MaxTime = 2
    Calls = {k1, k2}
    Commands <- MCCommands
    Rules <- MCRules
    Inputs <- MCInputs
    Levels = 2
    ReadonlyOn = TRUE
    ProjectRulesOn = TRUE
    MaxEdits = 2
    MaxFailures = 1
SYMMETRY MCSymmetry
CONSTRAINT Narrow
INVARIANTS
    HandledOnce
    OnlyOursIsAnswered
    CacheIsTrue
    StandingDenyWins
