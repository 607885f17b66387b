\* Two tokens a second, burst 2, one token every 1.5 ticks; a limit of two
\* bytes with messages below, at, just above and well above it.
CONSTANTS
    Rate = 2
    Token = 3
    TicksPerSecond = 3
    MaxTime = 6
    Limit = 2
    Sizes = {1, 2, 3, 5}
    MaxQueue = 2
SPECIFICATION IntakeSpec
CHECK_DEADLOCK FALSE
INVARIANTS
    WindowBound
    FitsIsServed
    BufferBound
PROPERTIES
    PacedClientIsServed
