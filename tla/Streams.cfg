SPECIFICATION FairSpec
CONSTANTS
    Capacity = 1
    Candidates = 2
    MaxFrames = 3
    Executors = {"openai", "claude", "gemini"}
INVARIANTS BooksWhatWasTold NeverASilentEnd
PROPERTIES EverythingEnds
CHECK_DEADLOCK FALSE
