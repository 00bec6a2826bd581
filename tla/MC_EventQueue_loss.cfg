CONSTANTS
    EVENT_QUEUE_SIZE <- MC_EVENT_QUEUE_SIZE
    MaxEvents <- MC_MaxEvents
    MaxBurst <- MC_MaxBurst
SPECIFICATION Spec
INVARIANTS
    NoLossBeyondDropOldest
