\* Three agents fight over one account; any of their handlers may raise.
CONSTANTS
    Agents = {a1, a2, a3}
    NoAgent = NoAgent
    FailureBound = 3
SPECIFICATION FairSpec
INVARIANTS
    NewestSurvives
    NoReplaceLoop
PROPERTIES
    AgentsKeepPromise
    Settles
CHECK_DEADLOCK FALSE
