CONSTANTS
    Daemons = {d1, d2}
    NoSocket = NoSocket
    Codes <- MCCodes
    Kinds = {"command", "unknown", "meta", "upgrade", "builtin"}
    Upgraders = {u1, u2}
    Me = u1
    Releases <- MCReleases
    First <- MCFirst
SPECIFICATION LineSpec
INVARIANTS
    OnceUnlessSignalled
    StatusIsHonest
    UpgradeIsClean
PROPERTIES
    NoDowngrade
    LineEnds
CHECK_DEADLOCK FALSE
