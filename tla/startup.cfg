CONSTANTS
    Processes = {p1, p2, p3}
    Nobody = nobody
    Target = 2
    Backfill = 2
    MaxStarts = 3
    MaxFaults = 2
SPECIFICATION Spec
INVARIANTS OneInside  
PROPERTY NoStaleRefusal
SYMMETRY ProcessSymmetry
CHECK_DEADLOCK FALSE
