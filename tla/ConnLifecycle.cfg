\* Two clients and one slot: the second is queued, held at the semaphore, or
\* admitted as the first leaves.  Clients may stay silent for ever.
CONSTANTS
    Conns = {c1, c2}
    MaxConns = 1
SPECIFICATION FairSpec
CHECK_DEADLOCK FALSE
INVARIANTS
    ConnLimit
    DrainTracked
PROPERTIES
    TrackedIsTornDown
    AdmissionProgress
    StopTerminatesInTheEnd
