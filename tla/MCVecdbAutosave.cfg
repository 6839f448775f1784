CONSTANTS
    Texts = {t1, t2}
    MaxRecords = 3
    MaxFaults = 2
    FirstCap = 1
    KInputs = {0}
    KValues = 8
    DefaultK = 5

SPECIFICATION Spec

PROPERTY ExitSavesAdditions
