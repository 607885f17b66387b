CONSTANTS
    Limit = 2
    Sizes = {1, 2, 3}
    MaxQueue = 2
SPECIFICATION ReaderSpec
INVARIANT MaxRequestSize
CHECK_DEADLOCK FALSE
