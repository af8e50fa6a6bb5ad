SPECIFICATION Spec
CONSTANTS
    a = a
    b = b
    Chats = {a, b}
    Casts <- ThreeCasts
    Upstreams = {"gemini", "claude", "responses", "openai"}
    SIGNATURE_CAPACITY = 2
    WRITE_QUEUE_DEPTH = 1
    MaxAnswers = 2
    MaxTurns = 5
CHECK_DEADLOCK FALSE
INVARIANTS EverythingIsTold ResultsFollowTheirCalls TurnsAlternate
PROPERTIES OwnSignatureIsReplayed
