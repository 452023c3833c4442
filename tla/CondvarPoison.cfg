SPECIFICATION Spec
CONSTANTS
    Writers = {w1, w2}
    Readers = {r1, r2}
    Lag = 1
    MaxMessages = 3
    MaxSpurious = 1
INVARIANTS WritersSurviveReaders
CHECK_DEADLOCK FALSE
