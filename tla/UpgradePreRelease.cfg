CONSTANTS
    Daemons = {d1, d2}
    NoSocket = NoSocket
    Codes <- MCCodes
    Kinds = {"command", "unknown", "meta", "upgrade"}
    Upgraders = {u1}
    Me = u1
    Releases <- MCBeta
    First <- MCStable
SPECIFICATION LineSpec
PROPERTIES
    StableIsKept
CHECK_DEADLOCK FALSE
