\* One session with two turns: the workers may overtake each other by a turn.
CONSTANTS
    Sessions = {h1}
    TurnBound = 2
    DeltaBound = 2
SPECIFICATION Spec
INVARIANTS
    Ordered
    EndsOnce
    NoStaleRun
CHECK_DEADLOCK FALSE
