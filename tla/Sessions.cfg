SPECIFICATION Spec
CONSTANTS
    Ids = {i1}
    Workers = {w1, w2}
    Refused = refused
    Root <- MCRoot
    Dirs <- MCDirs
    Targets <- MCTargets
    Landing <- MCLanding
    Escapes <- MCEscapes
    Inside <- MCInside
    TTL = 1
    Interval = 2
INVARIANTS
    CwdInsideBase
    RunsInsideBase
    ExpiryBound
    NewSessionIsToldRight
PROPERTIES
    BaseIsForGood
    GoneForGood
