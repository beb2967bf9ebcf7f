CONSTANTS
    Profiles = {pa, pb}
    Known = {pa}
    Boot = pa
    Threads = {t1, t2}
    Writer = writer
    Cloud = TRUE
    MaxRequests = 2
    MaxWrites = 1
    MaxTroubles = 1
SPECIFICATION Spec
INVARIANT NoCrossing
CHECK_DEADLOCK FALSE
