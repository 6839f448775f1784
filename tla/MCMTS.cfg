CONSTANTS
    NTrains = 4
    MaxCreateFailures = 0

SPECIFICATION Spec

INVARIANTS
    TrackExclusive
    QueuesExact
    NoLostWakeup
    BoundedOvertaking

PROPERTIES
    PriorityRespected
    SingleTrackSafe
