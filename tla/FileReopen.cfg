SPECIFICATION Spec
CONSTANTS
    Threads = {w1, w2}
    Readers = {r1}
    PageSize = 2
    MaxPages = 3
    Sizes <- MixedSizes
    MaxHead = 5
    MaxSessions = 2
PROPERTIES NothingOverwritten
CHECK_DEADLOCK FALSE
