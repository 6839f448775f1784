CONSTANTS
    Texts = {t1, t2}
    MaxRecords = 3
    MaxFaults = 3
    FirstCap = 1
    KInputs = {0, 3}
    KValues = 8
    DefaultK = 5

SPECIFICATION Spec

INVARIANTS
    LoadAllOrNothing
    CleanMeansStored
    TornFileReported
    IndexOfPrefix
    RoomForRecords

PROPERTY StoredOnlyGrows
