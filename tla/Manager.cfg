SPECIFICATION Spec
CONSTANTS
    c1 = c1
    c2 = c2
    p1 = p1
    x1 = x1
    x2 = x2
    Chats = {c1, c2}
    Projects = {p1}
    Default = Default
    Conversations = {x1, x2}
    NoId = NoId
    Absent = Absent
    MaxConfirms = 1
    MaxInputs = 4
    MaxRestarts = 1
SYMMETRY MCSymmetry
CHECK_DEADLOCK FALSE
INVARIANTS
    NoCrossProvider
    WorkIsActive
    ForgottenStays
PROPERTIES
    RestartContinues
