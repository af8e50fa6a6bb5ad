SPECIFICATION FairSpec
CONSTANTS
    b1 = b1
    b2 = b2
    b3 = b3
    Backends = {b1, b2, b3}
    Configured = {b1, b2}
    Requests = {r1, r2}
    Plans <- WalkPlans
    Slots = 1
    Nobody = Nobody
    Threshold = 1
    Cooldown = 1
INVARIANTS
    VerdictMatchesHistory OpenOnlyIfFaulted
    BooksNameTheServer
PROPERTIES EveryRequestAnswered
