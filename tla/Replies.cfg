\* Two calls in two sessions, E2E configured.
CONSTANTS
    Sessions = {main, side}
    Calls = {c1, c2}
    Models = {m1, m2}
    NoModel = NoModel
    LifeBound = 2
    RequestBound = 2
    E2EPassword = TRUE
SYMMETRY CallSymmetry
SPECIFICATION Spec
INVARIANTS
    FlagsHonest
    Announced
PROPERTIES
    StaysSealed
CHECK_DEADLOCK FALSE
