CONSTANTS
    Procs = {p1, p2, p3}

SPECIFICATION Spec

SYMMETRY ProcSymmetry

INVARIANTS
    WritesApartLeaveAWhole
    LostOnlyToALaterWrite
