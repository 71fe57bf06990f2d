\* A client whose message handler may raise and leave sockets behind.
CONSTANTS
    Socks = {s1, s2, s3}
    NoSock = NoSock
    MinBackoff = 1
    MaxBackoff = 2
    ServiceRetry = 3
    RetryAfters = {0, 1}
    Jitters = {75}
    InboxBound = 2
    E2EPassword = TRUE
    HandlerMayRaise = TRUE
SYMMETRY SockSymmetry
SPECIFICATION Spec
INVARIANTS
    AtMostOneSocket
    StopLeavesNoSocket
    KeyBeforeMessages
    StopIsFinal
    StaysAway
PROPERTIES
    RetiredStaysDown
    ImplementsLink
CHECK_DEADLOCK FALSE
