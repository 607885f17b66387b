CONSTANTS
    Daemons = {d1, d2}
    NoSocket = NoSocket
    Codes <- MCCodes
    Kinds = {"command", "unknown", "meta", "upgrade", "builtin"}
    Upgraders = {u1}
    Me = u1
    Releases <- MCReleases
    First <- MCFirst
SPECIFICATION LineSpec
INVARIANTS
    ForwardedOnce
CHECK_DEADLOCK FALSE
