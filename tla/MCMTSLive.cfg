CONSTANTS
    NTrains = 3
    MaxCreateFailures = 1

SPECIFICATION FairSpec

INVARIANT EndsWhenAllCrossed

PROPERTIES
    ReadyTrainsCross
    Terminates

\* A train without a thread leaves the main thread waiting for it forever.
CHECK_DEADLOCK FALSE
