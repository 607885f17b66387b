\* Two connections compete for one worker.
CONSTANTS
    Conns = {c1, c2}
    Workers = 1
    Messages <- FewMessages
    MaxSend <- OneEach
    OutCap = 1
SPECIFICATION FairSpec
CHECK_DEADLOCK FALSE
INVARIANTS
    OneWriter
PROPERTIES
    MessageIsFinished
