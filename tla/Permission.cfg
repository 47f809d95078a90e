SPECIFICATION FairSpec
CONSTANTS
    p1 = p1
    p2 = p2
    alice = alice
    bob = bob
    Requests = {p1, p2}
    Users = {alice, bob}
    Owner <- MCOwner
    Timings <- MCTimings
CHECK_DEADLOCK FALSE
INVARIANTS
    TimersMatchPending
    CardAgrees
PROPERTIES
    ImplementsCardRequest
    EveryRequestEnds
