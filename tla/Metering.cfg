\* Three events, one of them rejected by the tables, and any two faults.
CONSTANTS
    Event = {e1, e2, e3}
    NoEvent = NoEvent
    Rejected = {e3}
    MaxAttempts = 2
    MaxFaults = 2
\* When every event is published and counted nothing is left to do.
CHECK_DEADLOCK FALSE
SPECIFICATION FairSpec
INVARIANTS TypeOK BookedAtMostOnce FaultsBoundDrift
PROPERTIES ConsumerCatchesUp
