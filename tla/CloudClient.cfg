\* A client whose message handler never raises, under the fairness of the
\* event loop.  No symmetry: it is not sound for liveness.
CONSTANTS
    Socks = {s1, s2, s3}
    NoSock = NoSock
    MinBackoff = 1
    MaxBackoff = 3
    ServiceRetry = 4
    RetryAfters = {0, 2}
    Jitters = {75, 125}
    InboxBound = 2
    E2EPassword = TRUE
    HandlerMayRaise = FALSE
SPECIFICATION FairSpec
INVARIANTS
    TypeOK
PROPERTIES
    StopReturns
    Unwinds
    Recovers
CHECK_DEADLOCK FALSE
