\* A raising handler hides the 4009 behind the frame it handles.
CONSTANTS
    Socks = {s1, s2}
    NoSock = NoSock
    MinBackoff = 1
    MaxBackoff = 2
    ServiceRetry = 4
    RetryAfters = {0}
    Jitters = {75}
    InboxBound = 2
    E2EPassword = FALSE
    HandlerMayRaise = TRUE
SPECIFICATION Spec
PROPERTIES
    ReplacedStaysDown
CHECK_DEADLOCK FALSE
