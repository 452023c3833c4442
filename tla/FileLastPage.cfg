SPECIFICATION Spec
CONSTANTS
    Threads = {w1, w2}
    Readers = {r1}
    PageSize = 2
    MaxPages = 3
    Sizes <- MixedSizes
    MaxHead = 5
    MaxSessions = 1
INVARIANTS AdmittedWritesDontPanic
CHECK_DEADLOCK FALSE
