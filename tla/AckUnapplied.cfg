\* The ack of a create says ok although the pause that came with it failed.
CONSTANTS
    Tasks = {t1}
    Jobs = {j1, j2, j3}
    NoJob = NoJob
    EditBound = 2
SYMMETRY Symmetric
SPECIFICATION Spec
PROPERTIES
    AckMeansApplied
CHECK_DEADLOCK FALSE
