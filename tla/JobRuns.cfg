\* Two requested runs and a scheduled one.  No symmetry: it is not sound
\* for liveness.
CONSTANTS
    Runs = {r1, r2}
    Scheduled = {e1}
SPECIFICATION FairSpec
INVARIANTS
    HookLagsByOne
    ShowsOwnRun
    ShowsLaterRun
PROPERTIES
    RowsClose
CHECK_DEADLOCK FALSE
