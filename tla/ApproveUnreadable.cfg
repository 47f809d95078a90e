SPECIFICATION Spec
CONSTANTS
    m1 = m1
    m2 = m2
    h1 = h1
    h2 = h2
    k1 = k1
    k2 = k2
    Messages = {}
    Handlers = {}
    Mail = {}
    RequireMention = TRUE
    Rejects = TRUE
    MaxLookups = 0
    Capacity = 1
    Ttl = 1
    MaxPassages = 0
    MaxTime = 0
    Calls = {k1, k2}
    Commands <- MCCommands
    Rules <- MCRules
    Inputs <- MCInputs
    Levels = 2
    ReadonlyOn = TRUE
    ProjectRulesOn = TRUE
    MaxEdits = 2
    MaxFailures = 1
SYMMETRY MCSymmetry
INVARIANTS
    ErrorsNeverWiden
