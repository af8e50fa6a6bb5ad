SPECIFICATION DialectsSpec
CONSTANTS
    Providers = {"openai", "claude", "gemini", "responses"}
    MaxEvents = 7
    MaxParts = 3
INVARIANTS WellFormed CallsArriveWhole ToolUseShown SameAnswer
CHECK_DEADLOCK FALSE
