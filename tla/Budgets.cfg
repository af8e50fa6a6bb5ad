SPECIFICATION Spec
CONSTANTS
    Requests = {r1, r2}
    DayLength = 2
    WeekLength = 4
    MonthLength = 4
    Window = 2
    Scenes <- AllScenes
    Costs = {1}
    MaxTime = 2
SYMMETRY Symmetry
INVARIANTS OverrunBounded RateBounded
PROPERTIES WarnsOncePerPeriod NoFalseRefusal
CHECK_DEADLOCK FALSE
