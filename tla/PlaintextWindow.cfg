\* A reply leaves in plaintext before the key is derived.
CONSTANTS
    Sessions = {main, side}
    Calls = {c1, c2}
    Models = {m1, m2}
    NoModel = NoModel
    LifeBound = 2
    RequestBound = 2
    E2EPassword = TRUE
SPECIFICATION Spec
INVARIANTS
    CiphertextOnly
CHECK_DEADLOCK FALSE
