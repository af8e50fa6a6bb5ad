SPECIFICATION Spec
CONSTANTS
    MAX_SSE_EVENT_BYTES = 8
    NGRAM = 2
    WINDOW_WORDS = 5
    REPEAT_PERCENT = 50
    MIN_REPEATS = 2
    MAX_DISTINCT_WORDS = 1
    LARGE_ANSWER_WORDS = 6
    Styles <- AllStyles
    Frames <- SomeFrames
    MaxFrames = 5
    MaxChunk = 4
INVARIANTS EventsSurviveCuts CutAtTheFirstLoop
CHECK_DEADLOCK FALSE
