\* Stop with silent clients, one served and one held at the semaphore.
CONSTANTS
    Conns = {c1, c2}
    MaxConns = 1
SPECIFICATION FairSpec
CHECK_DEADLOCK FALSE
PROPERTIES
    StopTerminates
