\* Two tasks, three edits, and everything that may go wrong.
CONSTANTS
    Tasks = {t1, t2}
    Jobs = {j1, j2, j3}
    NoJob = NoJob
    EditBound = 3
SYMMETRY Symmetric
SPECIFICATION Spec
INVARIANTS
    TypeOK
    OneJobPerTask
    Mirrored
    OwnJob
PROPERTIES
    NoRegress
CHECK_DEADLOCK FALSE
