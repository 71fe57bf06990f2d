\* Three profiles, each with a gateway of its own or two in a multiplexer.
CONSTANTS
    p1 = p1
    p2 = p2
    p3 = p3
    g1 = g1
    g2 = g2
    g3 = g3
    t1 = t1
    Profiles = {p1, p2, p3}
    Gateways = {g1, g2, g3}
    NoGateway = NoGateway
    Layouts <- MCLayouts
    NoneText = none
    Tokens = {t1, none}
    Unset = Unset
    Null = Null
    Dotenvs <- MCDotenvs
    Yamls <- MCYamls
    Edits <- MCEdits
    Models = {m1, m2}
    NoModel = NoModel
    CrashBound = 1
    SetBound = 1
SYMMETRY ModelSymmetry
SPECIFICATION Spec
INVARIANTS
    IInv
    OneBinding
    NoLeftoverLock
    OwnSettings
    ModelTold
CHECK_DEADLOCK FALSE
