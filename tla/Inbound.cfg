\* Two sessions and a session of another channel.
CONSTANTS
    Sessions = {main, side}
    Foreign = Foreign
    NoSession = NoSession
    Shapes <- MCShapes
    FrameBound = 3
SYMMETRY Symmetric
SPECIFICATION Spec
INVARIANTS
    TypeOK
    InOrder
    OpenOnceKeyed
    OwnSender
    OwnActivity
CHECK_DEADLOCK FALSE
