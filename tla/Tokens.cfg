SPECIFICATION FairSpec
CONSTANTS
    Requests = {r1, r2}
    NoRequest = NoRequest
    Executors = {"grok", "openai", "gemini", "exa"}
    InitialRows <- Tables
    MaxGeneration = 3
INVARIANTS RenewalsAreKept TriesWholePool
PROPERTIES EveryRequestEnds
CHECK_DEADLOCK FALSE
