SPECIFICATION FairSpec
CONSTANTS
    Threshold = 2
    Cooldown = 2
    Requests = {r1, r2, r3}
    NoRequest = NoRequest
PROPERTIES KeepsPromise NeverPinned
