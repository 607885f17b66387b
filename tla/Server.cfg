\* One client and a pool of two workers; every pair of messages.
CONSTANTS
    Conns = {c1}
    MaxConns = 1
    Workers = 2
    Messages <- AllMessages
    MaxSend <- TwoEach
    OutCap = 1
SPECIFICATION Spec
CHECK_DEADLOCK FALSE
INVARIANTS
    AnsweredInOrder
    NoRequestIsCutShort
    AnsweredBeforeClose
PROPERTIES
    ImplementsLifecycle
