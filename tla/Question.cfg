SPECIFICATION Spec
CONSTANTS
    p1 = p1
    p2 = p2
    alice = alice
    bob = bob
    t1 = t1
    t2 = t2
    o1 = o1
    o2 = o2
    Requests = {p1, p2}
    Users = {alice, bob}
    Owner <- MCOwner
    Timings <- MCTimings
    Questions = {1, 2}
    Texts = {t1, t2}
    TextOf <- MCTextOf
    Options = {o1, o2}
    Null = Null
INVARIANTS
    AnswersComplete
PROPERTIES
    ImplementsCardRequest
    FirstClickWins
SYMMETRY MCSymmetry
CHECK_DEADLOCK FALSE
