SPECIFICATION Spec
CONSTANTS
    k1 = k1
    k2 = k2
    chat = chat
    m = m
    other = other
    hi = hi
    secret = secret
    term = term
    blank = blank
    Keys = {k1, k2}
    Models = {m, other}
    FirstKeys <- TwoTables
    RequireAuth = FALSE
    MaxAdmin = 1
    MaxNow = 1
    Secrets = {secret}
    Blank = blank
    Spelling <- Letters
    MIN_BLOB_LEN = 4
    MIN_HEX_LEN = 4
    MIN_SECRET_TAIL = 2
    AWS_KEY_TAIL = 2
    CARD_DIGITS = {3}
    PHONE_DIGITS = {2, 3}
    BlobBar = 1500
    HexBar = 1000
    TLD_LETTERS = {2, 3}
    MIN_SCRIPT_LETTERS = 2
    MIN_LATIN_TOKENS = 2
    SCAN_LIMIT = 2
    FirstPolicies <- OnePolicy
    Patches <- OnePatch
    MaxPatches = 1
    NearTexts <- NearPairs
    Ttl = 1
    Requests = {r1, r2}
    Tokens <- SomeTokens
    Bodies <- SomeBodies
    Replies <- SomeReplies
    SemanticMode = TRUE
    MaxArrivals = 2
    MaxFaults = 1
SYMMETRY Symmetry
INVARIANTS HitsMatchTheirRequest ServedOnlyIfAdmitted RefusedExactlyForCause WarningsReachTheClient
CHECK_DEADLOCK FALSE
