SPECIFICATION Spec
CONSTANTS
    Threads = {w1, w2}
    Readers = {r1}
    PageSize = 2
    MaxPages = 3
    Sizes <- MixedSizes
    MaxHead = 5
    MaxSessions = 1
PROPERTIES ImplementsLog EventuallyTaken WritesComplete
CHECK_DEADLOCK FALSE
